---- MODULE Spec2Model ----
(***************************************************************************)
(* Point-to-point voice-call appliance: the task graph of main.rs.         *)
(*                                                                         *)
(* Each task is modelled one loop iteration per step; the Network task     *)
(* (network_thread.rs) in finer steps: the two bootstrap receives, then    *)
(* the loop that alternates one socket poll with one try_recv on its       *)
(* command channel.  Channels are FIFO                                     *)
(* sequences.  A panic anywhere runs the hook installed by main, which     *)
(* calls std::process::exit(1), so a panic ends the whole process.         *)
(*                                                                         *)
(* Spec      the Network task driven by arbitrary holders of its sender    *)
(*           and by arbitrary datagrams; the receivers of the UI and       *)
(*           Playback channels are alive.                                  *)
(* SpecSys   the whole program: main and the four tasks it creates.        *)
(* SpecUi, SpecCapture, SpecPlayback                                       *)
(*           one task each, driven by arbitrary holders of its sender and  *)
(*           by its device or terminal.                                    *)
(* SpecInput the event task of events.rs as create_event_task would spawn  *)
(*           it, under weak fairness of its steps.                         *)
(* SpecCall  two instances A and B joined by a wire that loses nothing,    *)
(*           under weak fairness of the Network and UI loops.              *)
(* SpecCancel                                                              *)
(*           SpecCall in which the caller may hang up while the callee     *)
(*           rings.                                                        *)
(* SpecFree  the two instances with users who dial, accept and hang up as  *)
(*           they please, and a third host that dials A; no fairness.      *)
(* SpecMixer the UI and Playback tasks under the commands that start and   *)
(*           end calls and change the volume.                              *)
(***************************************************************************)
EXTENDS Integers, Sequences, FiniteSets, TLC

\* ------------------------------------------------------------------ bounds
\* commands an arbitrary sender may leave pending in the Network channel
MaxQueue == 1
\* messages the Network task may leave pending in each channel it writes to
MaxChan == 1
\* capacity given to the (unbounded) command channels when main, the UI
\* task and the Capture task write to them
MaxPending == 2
\* key presses of the user in one run
MaxKeys == 4
\* characters the dial dialog's text may hold
MaxIpLen == 1
\* samples play_buffer may hold
MaxPlayBuffer == 2
\* frames the playback device may report as available
MaxAvail == 2
\* samples the Playback task may be given between two Stops
MaxStream == 3
\* times the users of the two instances press Esc on a call screen
MaxEscs == 1

\* --------------------------------------------------------------- constants
Port == 33445
\* vec![0; 8192 * 2 * 2] in input_audio_task
CaptureBufferLen == 32768

Ips == {"ipA", "ipB"}
NoAddr == [ip |-> "none", port |-> 0]
Peers == {[ip |-> i, port |-> Port] : i \in Ips}

\* i16 sample frames used as audio payloads
AudioFrames == {<<1, 2>>, <<-1>>}

VARIABLES
    process,        \* "running" | "exit1" (panic hook) | "exit0" (main returned)
    netPc,          \* position of network_task
    current_state,  \* NetworkState
    rxq,            \* Receiver<NetworkTaskCommand>
    uiQueue,        \* channel behind main_thread_sender (CallScreenCommand)
    playQueue,      \* channel behind output_audio_sender (OutputAudioTaskCommand)
    netStep,        \* what the last step of network_task handled and emitted
    handshake,      \* "ringing": the current call came in by StartConnection and no
                    \* Accept datagram has been sent for it; "none" otherwise
    mainPc,         \* position of main
    uiPc,           \* position of run_terminal_task
    screen_state,   \* AppState.screen_state
    animation_state, \* AppState.animation_state
    leds,           \* brightness last written to led_0, led_1, led_2 (red, green, blue)
    keysLeft,       \* key presses the user still makes
    capPc,          \* position of input_audio_task
    record,         \* input_audio_task's record flag
    capBufLen,      \* buffer.len() in input_audio_task
    capStep,        \* the last iteration that met frames on the device: whether it sent
    inQueue,        \* Receiver<InputAudioCommand>
    outPc,          \* position of output_audio
    play_buffer,    \* output_audio's play_buffer
    mixer,          \* playback volume of the mixer element
    pcmWritten,     \* samples passed to io.writei by the last iteration
    outStep,        \* the last command output_audio processed, and what it cleared
    playStream,     \* samples of the Play commands processed since the last Stop
    devStream,      \* samples passed to io.writei since the last Stop
    evPc,           \* position of event_task ("absent": the task was never created)
    evQueue,        \* Receiver<EventCommand>
    evdev,          \* key events /dev/input/event0 holds for fetch_events
    inst,           \* two running instances "A" and "B" of the program: for each its
                    \* Network task, its UI, its Capture task and the channels
    wire,           \* for each instance the datagrams on their way to its socket
    user            \* what the two users have done so far

netVars == <<netPc, current_state, netStep, handshake>>
chanVars == <<rxq, uiQueue, playQueue, inQueue>>
mainVars == <<mainPc>>
uiVars == <<uiPc, screen_state, animation_state, leds, keysLeft>>
capVars == <<capPc, record, capBufLen, capStep>>
outVars == <<outPc, play_buffer, mixer, pcmWritten, outStep, playStream, devStream>>
evVars == <<evPc, evQueue, evdev>>
callVars == <<inst, wire, user>>
vars == <<process, netVars, chanVars, mainVars, uiVars, capVars, outVars, evVars, callVars>>

\* ------------------------------------------------------------ NetworkState
Stopped == [tag |-> "Stopped", peer |-> NoAddr]
PendingConnection(p) == [tag |-> "PendingConnection", peer |-> p]
InCall(p) == [tag |-> "InCall", peer |-> p]


\* ---------------------------------------------------------------- messages
\* NetworkTaskCommand
NetCommand(t, a, au) == [type |-> t, addr |-> a, audio |-> au]
CmdStartConnection(a) == NetCommand("StartConnection", a, <<>>)
CmdStopConnection == NetCommand("StopConnection", NoAddr, <<>>)
CmdSendAccept == NetCommand("SendAccept", NoAddr, <<>>)
CmdSendAudio(au) == NetCommand("SendAudio", NoAddr, au)
CmdMainTaskQueue == NetCommand("MainTaskQueue", NoAddr, <<>>)
CmdOutputAudioQueue == NetCommand("OutputAudioQueue", NoAddr, <<>>)
CmdExit == NetCommand("Exit", NoAddr, <<>>)
NoCommand == NetCommand("none", NoAddr, <<>>)

NetCommands ==
    {CmdStartConnection(a) : a \in Peers}
    \cup {CmdSendAudio(au) : au \in AudioFrames}
    \cup {CmdStopConnection, CmdSendAccept, CmdMainTaskQueue,
          CmdOutputAudioQueue, CmdExit}

\* CallScreenCommand, the variants the Network task emits
UiStartCall(a) == [type |-> "StartCall", addr |-> a]
UiIncomingCall(a) == [type |-> "IncomingCall", addr |-> a]
UiStopCall == [type |-> "StopCall", addr |-> NoAddr]

\* OutputAudioTaskCommand
OutPlay(samples) == [type |-> "Play", samples |-> samples, volume |-> 0, mute |-> FALSE]

\* ------------------------------------------------------------ NetworkPacket
TypeByte(t) ==
    CASE t = "StartConnection" -> 0
      [] t = "StopConnection" -> 1
      [] t = "Audio" -> 2
      [] t = "Heartbeat" -> 3
      [] t = "Accept" -> 4

\* the bytes of one i16, as new_audio's reinterpretation lays them out on
\* the little-endian targets this appliance is built for
I16Bytes(x) == <<(x % 65536) % 256, (x % 65536) \div 256>>

RECURSIVE SamplesToBytes(_)
SamplesToBytes(au) ==
    IF au = <<>> THEN <<>> ELSE I16Bytes(Head(au)) \o SamplesToBytes(Tail(au))

BytesI16(lo, hi) ==
    LET u == lo + 256 * hi IN IF u >= 32768 THEN u - 65536 ELSE u

\* the reinterpretation of packet.data in the InCall arm: len / 2 samples
BytesToSamples(b) ==
    [i \in 1..(Len(b) \div 2) |-> BytesI16(b[2 * i - 1], b[2 * i])]

Packet(t, data) == [packet_type |-> t, data |-> data]
new_start_connection == Packet("StartConnection", <<>>)
new_stop_connection == Packet("StopConnection", <<>>)
new_audio(audio) == Packet("Audio", SamplesToBytes(audio))
new_accept == Packet("Accept", <<>>)
new_heartbeat == Packet("Heartbeat", <<>>)

serialize(p) == <<TypeByte(p.packet_type)>> \o p.data

\* deserialize is only called on a non-empty buffer; an unknown kind byte
\* reaches panic!("Invalid packet type"), returned here as type "panic"
deserialize(data) ==
    LET packet_type ==
            CASE data[1] = 0 -> "StartConnection"
              [] data[1] = 1 -> "StopConnection"
              [] data[1] = 2 -> "Audio"
              [] data[1] = 3 -> "Heartbeat"
              [] data[1] = 4 -> "Accept"
              [] OTHER -> "panic"
    IN  IF Len(data) = 1
        THEN Packet(packet_type, <<>>)
        ELSE Packet(packet_type, SubSeq(data, 2, Len(data)))

\* ---------------------------------------------------------------- datagrams
\* a received datagram: source address and bytes; NoDatagram is recv_from
\* returning Err (read timeout)
Datagram(src, bytes) == [src |-> src, bytes |-> bytes]
NoDatagram == Datagram(NoAddr, <<>>)
\* a datagram passed to send_to
OutDatagram(dst, bytes) == [dst |-> dst, bytes |-> bytes]

\* payload bytes a peer may put after the kind byte
RxPayloads == {<<1, 0, 2, 0>>, <<1, 0, 2>>}
\* kind bytes a peer may send: the five known ones and one unknown
RxKinds == {0, 1, 2, 3, 4, 7}
RxBytes == {<<>>} \cup {<<k>> : k \in RxKinds} \cup {<<2>> \o pl : pl \in RxPayloads}
Datagrams == {Datagram(a, b) : a \in Peers, b \in RxBytes}

\* =============================================================== UI task
\* PCM of the two embedded MP3 assets as decode_bytes returns it
ReadyToPairSound == <<5>>
IncomingCallSound == <<6>>

\* InputAudioCommand
InStart == [type |-> "Start"]
InStop == [type |-> "Stop"]
InExit == [type |-> "Exit"]

\* OutputAudioTaskCommand, the variants besides Play
OutStop == [type |-> "Stop", samples |-> <<>>, volume |-> 0, mute |-> FALSE]
OutSetVolume(v) == [type |-> "SetVolume", samples |-> <<>>, volume |-> v, mute |-> FALSE]
OutSetMute(b) == [type |-> "SetMute", samples |-> <<>>, volume |-> 0, mute |-> b]
OutExit == [type |-> "Exit", samples |-> <<>>, volume |-> 0, mute |-> FALSE]

\* CallScreenCommand, the variants no task of main.rs sends
UiCommand(t) == [type |-> t, addr |-> NoAddr]

\* keys of the terminal; "1" and "2" are typed into the dial dialog
IpChars == {"1", "2"}
Keys == {"Up", "Down", "Enter", "Esc", "Backspace", "m", "a", "d"} \cup IpChars
NoKey == "none"

\* state.ip.parse::<IpAddr>(): the text "1" stands for the literal of ipA,
\* "2" for the literal of ipB; every other text fails to parse
ParseIp(text) ==
    CASE text = <<"1">> -> "ipA"
      [] text = <<"2">> -> "ipB"
      [] OTHER -> "error"

LedsOff == <<<<0, 0, 0>>, <<0, 0, 0>>, <<0, 0, 0>>>>

\* CallScreenState; NoCall stands for "the screen is not Call"
NoCall == [is_muted |-> FALSE, volume |-> 0, remote_ip |-> "none", call_status |-> "none"]
NewCallScreenState(ip) ==
    [is_muted |-> FALSE, volume |-> 100, remote_ip |-> ip, call_status |-> "Calling"]

\* ScreenState, one record for the four variants
Home == [screen |-> "Home", selected |-> 0, ip |-> <<>>, call |-> NoCall]
EnterCallInfo(text) == [screen |-> "EnterCallInfo", selected |-> 0, ip |-> text, call |-> NoCall]
Contacts == [screen |-> "Contacts", selected |-> 0, ip |-> <<>>, call |-> NoCall]
Call(c) == [screen |-> "Call", selected |-> 0, ip |-> <<>>, call |-> c]

\* StatefulList::next and ::previous over the three menu items
MenuLen == 3
ListNext(i) == IF i >= MenuLen - 1 THEN 0 ELSE i + 1
ListPrevious(i) == IF i = 0 THEN MenuLen - 1 ELSE i - 1

\* AppState::animation: writes the row of the current phase, then advances
AnimationRow(phase) ==
    CASE phase = 0 -> <<<<0, 0, 0>>, <<0, 0, 0>>, <<0, 0, 0>>>>
      [] phase = 1 -> <<<<128, 128, 128>>, <<128, 128, 128>>, <<128, 128, 128>>>>
      [] phase = 2 -> <<<<128, 0, 0>>, <<0, 128, 0>>, <<0, 0, 128>>>>
      [] phase = 3 -> <<<<0, 128, 0>>, <<0, 0, 128>>, <<128, 0, 0>>>>
      [] phase = 4 -> <<<<0, 0, 128>>, <<128, 0, 0>>, <<0, 128, 0>>>>

\* IncreasedVolume without the ceiling
IncreasedVolume_Unclamped(v) == v + 5

\* (volume + 5).min(100)
IncreasedVolume(v) == IF v + 5 < 100 THEN v + 5 ELSE 100

\* (volume - 5).max(0)
DecreasedVolume(v) == IF v - 5 > 0 THEN v - 5 ELSE 0

\* the running value of one handle_events call: the AppState fields, the
\* messages sent so far in order (each with its channel), and the returned
\* flag
Ctx(scr, anim, brightness, out, quit) ==
    [screen_state |-> scr, animation_state |-> anim,
     leds |-> brightness, out |-> out, quit |-> quit]
To(chan, msg) == [to |-> chan, msg |-> msg]
Send(x, chan, msg) == [x EXCEPT !.out = Append(@, To(chan, msg))]

\* animation that writes the row but stays in its phase
animation_Stuck(x) == [x EXCEPT !.leds = AnimationRow(x.animation_state)]

animation(x) ==
    [x EXCEPT !.leds = AnimationRow(x.animation_state),
              !.animation_state = (x.animation_state + 1) % 5]

stop_animation(x) == [x EXCEPT !.leds = LedsOff, !.animation_state = 0]

\* HangUp without the final stop_animation
HangUp_KeepsLeds(x) ==
    Send(Send(Send([x EXCEPT !.screen_state = Home],
                   "net", CmdStopConnection),
              "cap", InStop),
         "play", OutStop)

\* the body shared by CallScreenCommand::StopCall, ::RejectCall and Esc
HangUp(x) ==
    stop_animation(
        Send(Send(Send([x EXCEPT !.screen_state = Home],
                       "net", CmdStopConnection),
                  "cap", InStop),
             "play", OutStop))

\* if let Ok(cmd) = app.call_rx.try_recv() { match cmd { ... } }
HandleUiCommand(x, cmd) ==
    LET scr == x.screen_state
        inCallScreen == scr.screen = "Call"
    IN
    CASE cmd.type = "StartCall" ->
            [Send(Send(x, "play", OutStop), "cap", InStart)
                EXCEPT !.screen_state =
                    Call([NewCallScreenState(cmd.addr.ip) EXCEPT !.call_status = "InCall"])]
      [] cmd.type = "IncomingCall" ->
            [Send(Send(x, "play", OutStop), "play", OutPlay(IncomingCallSound))
                EXCEPT !.screen_state =
                    Call([NewCallScreenState(cmd.addr.ip) EXCEPT !.call_status = "IncomingCall"])]
      [] cmd.type = "StopCall" -> IF inCallScreen THEN HangUp(x) ELSE x
      [] cmd.type = "AcceptCall" ->
            IF inCallScreen
            THEN stop_animation(
                    Send([Send(Send(x, "net", CmdSendAccept), "cap", InStart)
                            EXCEPT !.screen_state.call.call_status = "InCall"],
                         "play", OutStop))
            ELSE x
      [] cmd.type = "RejectCall" -> HangUp(x)
      [] cmd.type = "EndCall" ->
            [Send(x, "net", CmdStopConnection) EXCEPT !.screen_state = Home]
      [] cmd.type = "Exit" -> [x EXCEPT !.quit = TRUE]
      [] cmd.type = "IncreaseVolume" ->
            IF inCallScreen
            THEN LET v == IncreasedVolume(scr.call.volume)
                 IN  Send([x EXCEPT !.screen_state.call.volume = v], "play", OutSetVolume(v))
            ELSE x
      [] cmd.type = "DecreaseVolume" ->
            IF inCallScreen
            THEN LET v == DecreasedVolume(scr.call.volume)
                 IN  Send([x EXCEPT !.screen_state.call.volume = v], "play", OutSetVolume(v))
            ELSE x
      [] cmd.type = "ToggleMute" ->
            IF inCallScreen
            THEN LET b == ~scr.call.is_muted
                 IN  Send([x EXCEPT !.screen_state.call.is_muted = b], "play", OutSetMute(b))
            ELSE x
      [] OTHER -> x

\* Animate that never calls animation()
Animate_Never(x) == x

\* if let ScreenState::Call(..) .. if let IncomingCall = call_status { animation() }
Animate(x) ==
    IF x.screen_state.screen = "Call" /\ x.screen_state.call.call_status = "IncomingCall"
    THEN animation(x)
    ELSE x

\* ScreenState::Home arm of the key match
HomeKey(x, code) ==
    LET sel == x.screen_state.selected IN
    CASE code = "Up" -> [x EXCEPT !.screen_state.selected = ListPrevious(sel)]
      [] code = "Down" -> [x EXCEPT !.screen_state.selected = ListNext(sel)]
      [] code = "Enter" ->
            (CASE sel = 0 -> [x EXCEPT !.screen_state = EnterCallInfo(<<>>)]
               [] sel = 1 -> [x EXCEPT !.screen_state = Contacts]
               [] sel = 2 -> [x EXCEPT !.quit = TRUE])
      [] OTHER -> x

\* ScreenState::EnterCallInfo arm of the key match; every key of Keys that
\* is a character is pushed onto the text
EnterCallInfoKey(x, code) ==
    LET text == x.screen_state.ip IN
    CASE code = "Enter" ->
            IF ParseIp(text) # "error"
            THEN Send([x EXCEPT !.screen_state = Call(NewCallScreenState(ParseIp(text)))],
                      "net", CmdStartConnection([ip |-> ParseIp(text), port |-> Port]))
            ELSE x
      [] code = "Esc" -> [x EXCEPT !.screen_state = Home]
      [] code = "Backspace" ->
            IF text = <<>> THEN x
            ELSE [x EXCEPT !.screen_state.ip = SubSeq(text, 1, Len(text) - 1)]
      [] code \in {"Up", "Down"} -> x
      [] OTHER -> [x EXCEPT !.screen_state.ip = Append(text, code)]

\* ScreenState::Call arm of the key match
CallKey(x, code) ==
    LET c == x.screen_state.call IN
    CASE code = "Esc" -> HangUp(x)
      [] code = "m" ->
            Send([x EXCEPT !.screen_state.call.is_muted = ~c.is_muted],
                 "play", OutSetMute(~c.is_muted))
      [] code = "a" ->
            LET v == DecreasedVolume(c.volume)
            IN  Send([x EXCEPT !.screen_state.call.volume = v], "play", OutSetVolume(v))
      [] code = "d" ->
            LET v == IncreasedVolume(c.volume)
            IN  Send([x EXCEPT !.screen_state.call.volume = v], "play", OutSetVolume(v))
      [] code = "Enter" ->
            IF c.call_status = "IncomingCall"
            THEN Send([Send(Send(x, "net", CmdSendAccept), "cap", InStart)
                         EXCEPT !.screen_state.call.call_status = "InCall"],
                      "play", OutStop)
            ELSE x
      [] OTHER -> x

\* match &mut app.screen_state { ... } after event::poll; NoKey is the poll
\* timing out
HandleKey(x, code) ==
    IF code = NoKey THEN x
    ELSE CASE x.screen_state.screen = "Home" -> HomeKey(x, code)
           [] x.screen_state.screen = "EnterCallInfo" -> EnterCallInfoKey(x, code)
           [] x.screen_state.screen = "Call" -> CallKey(x, code)
           [] OTHER -> x

\* handle_events: one command at most, the animation, one key at most; the
\* Exit command returns before the animation and the key
handle_events(x, hasCmd, cmd, code) ==
    LET afterCmd == IF hasCmd THEN HandleUiCommand(x, cmd) ELSE x
    IN  IF afterCmd.quit THEN afterCmd ELSE HandleKey(Animate(afterCmd), code)

\* ------------------------------------------------------------- network_task
\* The result of one arm of the loop: the next current_state, the datagrams
\* send_to put on the wire, the messages sent to the UI and to Playback, and how
\* the arm ended: "ok", "err" (a `?` returned Err out of network_task),
\* "panic", or "exit" (break).
NetResult(st, sent, ui, play, outcome) ==
    [state |-> st, sent |-> sent, ui |-> ui, play |-> play, outcome |-> outcome]
Unchanged(st) == NetResult(st, <<>>, <<>>, <<>>, "ok")
Panicked(st) == NetResult(st, <<>>, <<>>, <<>>, "panic")

\* PollPending with the UI notification of the Accept arm left out
PollPending_NoStartCall(st, d) ==
    IF d = NoDatagram \/ Len(d.bytes) = 0 THEN Unchanged(st)
    ELSE LET packet == deserialize(d.bytes) IN
         CASE packet.packet_type = "panic" -> Panicked(st)
           [] packet.packet_type = "Accept" ->
                NetResult(InCall(st.peer), <<>>, <<>>, <<>>, "ok")
           [] packet.packet_type = "StopConnection" ->
                NetResult(Stopped, <<>>, <<UiStopCall>>, <<>>, "ok")
           [] OTHER -> Unchanged(st)

\* match arm NetworkState::PendingConnection(peer); the source of the
\* datagram is not looked at
PollPending(st, d) ==
    IF d = NoDatagram \/ Len(d.bytes) = 0 THEN Unchanged(st)
    ELSE LET packet == deserialize(d.bytes) IN
         CASE packet.packet_type = "panic" -> Panicked(st)
           [] packet.packet_type = "Accept" ->
                NetResult(InCall(st.peer), <<>>, <<UiStartCall(st.peer)>>, <<>>, "ok")
           [] packet.packet_type = "StopConnection" ->
                NetResult(Stopped, <<>>, <<UiStopCall>>, <<>>, "ok")
           [] OTHER -> Unchanged(st)

\* PollInCall with the state assignment of the StopConnection arm left out
PollInCall_StaysInCall(st, d) ==
    IF d = NoDatagram \/ Len(d.bytes) = 0 THEN Unchanged(st)
    ELSE LET packet == deserialize(d.bytes) IN
         CASE packet.packet_type = "panic" -> Panicked(st)
           [] packet.packet_type = "Audio" ->
                NetResult(st, <<>>, <<>>, <<OutPlay(BytesToSamples(packet.data))>>, "ok")
           [] packet.packet_type = "StopConnection" ->
                NetResult(st, <<>>, <<UiStopCall>>, <<>>, "ok")
           [] OTHER -> Unchanged(st)

\* match arm NetworkState::InCall(_); the source of the datagram is not
\* looked at
PollInCall(st, d) ==
    IF d = NoDatagram \/ Len(d.bytes) = 0 THEN Unchanged(st)
    ELSE LET packet == deserialize(d.bytes) IN
         CASE packet.packet_type = "panic" -> Panicked(st)
           [] packet.packet_type = "Audio" ->
                NetResult(st, <<>>, <<>>, <<OutPlay(BytesToSamples(packet.data))>>, "ok")
           [] packet.packet_type = "StopConnection" ->
                NetResult(Stopped, <<>>, <<UiStopCall>>, <<>>, "ok")
           [] OTHER -> Unchanged(st)

\* match arm NetworkState::Stopped; sendOk is the result of send_to
PollStopped(st, d, sendOk) ==
    IF d = NoDatagram \/ Len(d.bytes) = 0 THEN Unchanged(st)
    ELSE LET packet == deserialize(d.bytes) IN
         CASE packet.packet_type = "panic" -> Panicked(st)
           [] packet.packet_type = "StartConnection" ->
                IF sendOk
                THEN NetResult(PendingConnection(d.src),
                               <<OutDatagram(d.src, serialize(new_heartbeat))>>,
                               <<UiIncomingCall(d.src)>>, <<>>, "ok")
                ELSE NetResult(PendingConnection(d.src), <<>>, <<>>, <<>>, "err")
           [] OTHER -> Unchanged(st)

\* match current_state { ... } around recv_from
PollSocket(st, d, sendOk) ==
    CASE st.tag = "PendingConnection" -> PollPending(st, d)
      [] st.tag = "InCall" -> PollInCall(st, d)
      [] st.tag = "Stopped" -> PollStopped(st, d, sendOk)

\* Ok(NetworkTaskCommand::StartConnection(message))
OnStartConnection(st, message, sendOk) ==
    IF sendOk
    THEN NetResult(PendingConnection(message),
                   <<OutDatagram(message, serialize(new_start_connection))>>,
                   <<>>, <<>>, "ok")
    ELSE NetResult(st, <<>>, <<>>, <<>>, "err")

\* Ok(NetworkTaskCommand::SendAccept)
OnSendAccept(st, sendOk) ==
    IF st.tag = "PendingConnection"
    THEN IF sendOk
         THEN NetResult(InCall(st.peer),
                        <<OutDatagram(st.peer, serialize(new_accept))>>,
                        <<>>, <<>>, "ok")
         ELSE NetResult(st, <<>>, <<>>, <<>>, "err")
    ELSE Unchanged(st)

\* OnStopConnection that tells the peer nothing
OnStopConnection_Silent(st, sendOk) == NetResult(Stopped, <<>>, <<>>, <<>>, "ok")

\* Ok(NetworkTaskCommand::StopConnection)
OnStopConnection(st, sendOk) ==
    IF st.tag = "InCall"
    THEN IF sendOk
         THEN NetResult(Stopped,
                        <<OutDatagram(st.peer, serialize(new_stop_connection))>>,
                        <<>>, <<>>, "ok")
         ELSE NetResult(st, <<>>, <<>>, <<>>, "err")
    ELSE NetResult(Stopped, <<>>, <<>>, <<>>, "ok")

\* OnSendAudio gated on "not Stopped" instead of "InCall"
OnSendAudio_AlsoPending(st, audio, sendOk) ==
    IF st.tag # "Stopped"
    THEN IF sendOk
         THEN NetResult(st, <<OutDatagram(st.peer, serialize(new_audio(audio)))>>,
                        <<>>, <<>>, "ok")
         ELSE NetResult(st, <<>>, <<>>, <<>>, "err")
    ELSE Unchanged(st)

\* Ok(NetworkTaskCommand::SendAudio(audio))
OnSendAudio(st, audio, sendOk) ==
    IF st.tag = "InCall"
    THEN IF sendOk
         THEN NetResult(st, <<OutDatagram(st.peer, serialize(new_audio(audio)))>>,
                        <<>>, <<>>, "ok")
         ELSE NetResult(st, <<>>, <<>>, <<>>, "err")
    ELSE Unchanged(st)

\* match rx.try_recv() { ... } for a received command c
OnCommand(st, c, sendOk) ==
    CASE c.type = "StartConnection" -> OnStartConnection(st, c.addr, sendOk)
      [] c.type = "SendAccept" -> OnSendAccept(st, sendOk)
      [] c.type = "StopConnection" -> OnStopConnection(st, sendOk)
      [] c.type = "SendAudio" -> OnSendAudio(st, c.audio, sendOk)
      [] c.type = "Exit" -> NetResult(st, <<>>, <<>>, <<>>, "exit")
      [] OTHER -> Unchanged(st)

\* record of the step just taken by network_task
Step(op, pre, d, c, r) ==
    [op |-> op, pre |-> pre, dgram |-> d, cmd |-> c,
     sent |-> r.sent, ui |-> r.ui, play |-> r.play, outcome |-> r.outcome]
NoStep == Step("none", Stopped, NoDatagram, NoCommand, Unchanged(Stopped))

\* where the task goes after an arm
NextPc(op, outcome) ==
    CASE outcome = "panic" -> "panicked"
      [] outcome = "err" -> "failed"
      [] outcome = "exit" -> "exited"
      [] op = "boot1" -> "boot2"
      [] op = "boot2" -> "poll"
      [] op = "poll" -> "cmd"
      [] OTHER -> "poll"

\* a Sender's send returns Err once the receiving task has dropped its
\* Receiver
NetRxAlive == netPc \notin {"failed", "exited", "panicked"}
UiRxAlive == uiPc = "running"
CapRxAlive == capPc = "running"
OutRxAlive == outPc = "running"

\* main_thread_sender.send(..)? and output_audio_sender.send(..)? are the
\* last statement of their arms: with the receiver gone the arm ends in Err
Undelivered(r) ==
    IF (r.ui # <<>> /\ ~UiRxAlive) \/ (r.play # <<>> /\ ~OutRxAlive)
    THEN [r EXCEPT !.ui = <<>>, !.play = <<>>, !.outcome = "err"]
    ELSE r

\* the callee's side of the handshake after an arm: an inbound
\* StartConnection taken in Stopped starts ringing, a sent Accept datagram
\* ends it, a dial or a return to Stopped forgets it
Handshake(op, pre, c, r) ==
    CASE r.state.tag = "Stopped" -> "none"
      [] \E i \in 1..Len(r.sent) : r.sent[i].bytes = serialize(new_accept) -> "none"
      [] op = "poll" /\ pre.tag = "Stopped" /\ r.state.tag = "PendingConnection" -> "ringing"
      [] op = "cmd" /\ c.type = "StartConnection" /\ r.outcome = "ok" -> "none"
      [] OTHER -> handshake

\* what a finished arm does to the task and to the channels
Apply(op, d, c, res) ==
    LET r == Undelivered(res) IN
    /\ current_state' = r.state
    /\ handshake' = Handshake(op, current_state, c, r)
    /\ uiQueue' = uiQueue \o r.ui
    /\ playQueue' = playQueue \o r.play
    /\ netStep' = Step(op, current_state, d, c, r)
    /\ process' = IF r.outcome = "panic" THEN "exit1" ELSE process
    /\ netPc' = NextPc(op, r.outcome)

\* room left in the channels the task writes to
HasRoom ==
    /\ Len(uiQueue) < MaxChan
    /\ Len(playQueue) < MaxChan

\* if let NetworkTaskCommand::MainTaskQueue(sender) = rx.recv()? ... else panic!
BootMain(st, c) ==
    IF c.type = "MainTaskQueue" THEN Unchanged(st) ELSE Panicked(st)

\* if let NetworkTaskCommand::OutputAudioQueue(sender) = rx.recv()? ... else panic!
BootOutput(st, c) ==
    IF c.type = "OutputAudioQueue" THEN Unchanged(st) ELSE Panicked(st)

NetBootMain ==
    /\ process = "running"
    /\ netPc = "boot1"
    /\ rxq # <<>>
    /\ rxq' = Tail(rxq)
    /\ Apply("boot1", NoDatagram, Head(rxq), BootMain(current_state, Head(rxq)))
    /\ UNCHANGED <<callVars, evVars, inQueue, mainVars, uiVars, capVars, outVars>>

NetBootOutput ==
    /\ process = "running"
    /\ netPc = "boot2"
    /\ rxq # <<>>
    /\ rxq' = Tail(rxq)
    /\ Apply("boot2", NoDatagram, Head(rxq), BootOutput(current_state, Head(rxq)))
    /\ UNCHANGED <<callVars, evVars, inQueue, mainVars, uiVars, capVars, outVars>>

\* the first half of one loop iteration: recv_from returns d (or times
\* out) under the current state
NetPoll(d) ==
    /\ process = "running"
    /\ netPc = "poll"
    /\ HasRoom
    /\ \E sendOk \in BOOLEAN :
          Apply("poll", d, NoCommand, PollSocket(current_state, d, sendOk))
    /\ UNCHANGED <<callVars, evVars, rxq, inQueue, mainVars, uiVars, capVars, outVars>>

\* the second half: rx.try_recv(); an empty channel is the Err(_) arm
NetTryRecv ==
    /\ process = "running"
    /\ netPc = "cmd"
    /\ HasRoom
    /\ IF rxq = <<>>
       THEN /\ Apply("cmd", NoDatagram, NoCommand, Unchanged(current_state))
            /\ UNCHANGED rxq
       ELSE /\ rxq' = Tail(rxq)
            /\ \E sendOk \in BOOLEAN :
                  Apply("cmd", NoDatagram, Head(rxq),
                        OnCommand(current_state, Head(rxq), sendOk))
    /\ UNCHANGED <<callVars, evVars, inQueue, mainVars, uiVars, capVars, outVars>>

\* ------------------------------------------------------------- environment
\* any holder of a clone of the Network sender (main, UI, Capture) sends c
SenderSend(c) ==
    /\ process = "running"
    /\ Len(rxq) < MaxQueue
    /\ rxq' = Append(rxq, c)
    /\ UNCHANGED <<callVars, evVars, process, netVars, uiQueue, playQueue, inQueue,
                   mainVars, uiVars, capVars, outVars>>

\* the UI task takes one message from its channel
UiTakes ==
    /\ process = "running"
    /\ uiQueue # <<>>
    /\ uiQueue' = Tail(uiQueue)
    /\ UNCHANGED <<callVars, evVars, process, netVars, rxq, playQueue, inQueue,
                   mainVars, uiVars, capVars, outVars>>

\* the Playback task takes one message from its channel
PlaybackTakes ==
    /\ process = "running"
    /\ playQueue # <<>>
    /\ playQueue' = Tail(playQueue)
    /\ UNCHANGED <<callVars, evVars, process, netVars, rxq, uiQueue, inQueue,
                   mainVars, uiVars, capVars, outVars>>

\* ================================================================ UI loop
RECURSIVE LivePrefix(_)
\* the sends of one handle_events call that are reached: all up to the
\* first one whose receiver is gone (its `?` returns Err)
LivePrefix(out) ==
    IF out = <<>> THEN <<>>
    ELSE LET alive == CASE Head(out).to = "net" -> NetRxAlive
                        [] Head(out).to = "cap" -> CapRxAlive
                        [] Head(out).to = "play" -> OutRxAlive
         IN  IF alive THEN <<Head(out)>> \o LivePrefix(Tail(out)) ELSE <<>>

RECURSIVE MsgsTo(_, _)
MsgsTo(out, chan) ==
    IF out = <<>> THEN <<>>
    ELSE IF Head(out).to = chan
         THEN <<Head(out).msg>> \o MsgsTo(Tail(out), chan)
         ELSE MsgsTo(Tail(out), chan)

\* one iteration of `while !should_quit`: terminal.draw, then handle_events
\* with what try_recv gives (hasCmd, cmd; rest is what stays in the channel)
\* and the key `code` (NoKey: the poll times out)
UiStep(hasCmd, cmd, rest, code) ==
    /\ process = "running"
    /\ uiPc = "running"
    /\ code # NoKey => keysLeft > 0
    /\ IF screen_state.screen = "Contacts"
       THEN \* ui(): ScreenState::Contacts(_) => todo!()
            /\ code = NoKey
            /\ uiPc' = "panicked"
            /\ process' = "exit1"
            /\ UNCHANGED <<screen_state, animation_state, leds, keysLeft, chanVars>>
       ELSE LET x == handle_events(Ctx(screen_state, animation_state, leds, <<>>, FALSE),
                                   hasCmd, cmd, code)
                sent == LivePrefix(x.out)
            IN  /\ Len(x.screen_state.ip) <= MaxIpLen
                /\ screen_state' = x.screen_state
                /\ animation_state' = x.animation_state
                /\ leds' = x.leds
                /\ keysLeft' = IF code = NoKey THEN keysLeft ELSE keysLeft - 1
                /\ uiQueue' = rest
                /\ rxq' = rxq \o MsgsTo(sent, "net")
                /\ inQueue' = inQueue \o MsgsTo(sent, "cap")
                /\ playQueue' = playQueue \o MsgsTo(sent, "play")
                /\ Len(rxq') <= MaxPending
                /\ Len(inQueue') <= MaxPending
                /\ Len(playQueue') <= MaxPending
                /\ uiPc' = CASE sent # x.out -> "failed"
                             [] x.quit -> "exited"
                             [] OTHER -> "running"
                /\ UNCHANGED process
    /\ UNCHANGED <<callVars, evVars, netVars, mainVars, capVars, outVars>>

\* the iteration on the channel as it is: try_recv takes its head, if any
UiTick(code) ==
    IF uiQueue # <<>>
    THEN UiStep(TRUE, Head(uiQueue), Tail(uiQueue), code)
    ELSE UiStep(FALSE, UiCommand("none"), uiQueue, code)

\* CallScreenCommand values a holder of the UI sender may send
UiCommands ==
    {UiStartCall(a) : a \in Peers} \cup {UiIncomingCall(a) : a \in Peers}
    \cup {UiCommand(t) : t \in {"StopCall", "AcceptCall", "RejectCall", "EndCall", "Exit",
                                "IncreaseVolume", "DecreaseVolume", "ToggleMute"}}

\* a holder of the UI sender (the Network task, the event task) sends c to
\* the empty channel and the iteration's try_recv takes it
UiTickOn(c, code) ==
    /\ uiQueue = <<>>
    /\ UiStep(TRUE, c, <<>>, code)

\* the Capture task takes one command from its channel
CaptureTakes ==
    /\ process = "running"
    /\ inQueue # <<>>
    /\ inQueue' = Tail(inQueue)
    /\ UNCHANGED <<callVars, evVars, process, netVars, rxq, uiQueue, playQueue,
                   mainVars, uiVars, capVars, outVars>>

\* ========================================================== Capture task
\* RecordAfter with the Stop arm leaving the flag set
RecordAfter_StopKeeps(rec, cmdType) ==
    CASE cmdType = "Start" -> TRUE
      [] OTHER -> rec

\* record after the match on command_receiver.recv_timeout(..)
RecordAfter(rec, cmdType) ==
    CASE cmdType = "Start" -> TRUE
      [] cmdType = "Stop" -> FALSE
      [] OTHER -> rec

\* record of the last iteration that began with record true and met frames
\* on the device ("none" before the first one): whether it sent them
CapStep(read, sent) == [read |-> read, sent |-> sent]

\* one iteration of input_audio_task's loop.  read is what the device has
\* for io.readi: "frames" (samples au are ready), "none" or "err"; alsaOk is
\* the result of the pcm calls followed by `?`.  readi fills the slice it is
\* given: on a buffer of length 0 it returns Ok(0) whatever the device has.
CaptureTick(read, au, alsaOk) ==
    /\ process = "running"
    /\ capPc = "running"
    /\ LET doRead == record
           got == IF read = "frames" /\ capBufLen = 0 THEN "none" ELSE read
           sends == doRead /\ got = "frames"
           sendFails == sends /\ ~NetRxAlive
           restartFails == doRead /\ got = "none" /\ ~alsaOk
           stopped == sendFails \/ restartFails
           hasCmd == ~stopped /\ inQueue # <<>>
           cmd == IF hasCmd THEN Head(inQueue) ELSE [type |-> "none"]
       IN  /\ rxq' = IF sends /\ ~sendFails THEN Append(rxq, CmdSendAudio(au)) ELSE rxq
           /\ Len(rxq') <= MaxPending
           /\ capBufLen' = IF sends /\ ~sendFails THEN 0 ELSE capBufLen
           /\ capStep' = IF doRead /\ read = "frames"
                         THEN CapStep("frames", sends /\ ~sendFails)
                         ELSE capStep
           /\ inQueue' = IF hasCmd THEN Tail(inQueue) ELSE inQueue
           /\ record' = RecordAfter(record, cmd.type)
           /\ capPc' = CASE stopped -> "failed"
                         [] cmd.type \in {"Start", "Stop"} /\ ~alsaOk -> "failed"
                         [] cmd.type = "Exit" -> "exited"
                         [] OTHER -> "running"
    /\ UNCHANGED <<callVars, evVars, process, netVars, uiQueue, playQueue, mainVars, uiVars, outVars>>

\* a holder of the Capture sender (the UI task, main) sends c
CapSenderSend(c) ==
    /\ process = "running"
    /\ Len(inQueue) < MaxQueue
    /\ inQueue' = Append(inQueue, c)
    /\ UNCHANGED <<callVars, evVars, process, netVars, rxq, uiQueue, playQueue,
                   mainVars, uiVars, capVars, outVars>>

\* the Network task takes one command from its channel
NetworkTakes ==
    /\ process = "running"
    /\ rxq # <<>>
    /\ rxq' = Tail(rxq)
    /\ UNCHANGED <<callVars, evVars, process, netVars, uiQueue, playQueue, inQueue,
                   mainVars, uiVars, capVars, outVars>>

\* ========================================================= Playback task
Min(a, b) == IF a < b THEN a ELSE b

\* Drain taking the samples from the back of the buffer
Drain_FromBack(buf, running, avail) ==
    IF buf # <<>> /\ ~running
    THEN LET n == Min(avail, Len(buf))
         IN  [written |-> SubSeq(buf, Len(buf) - n + 1, Len(buf)),
              rest |-> SubSeq(buf, 1, Len(buf) - n)]
    ELSE [written |-> <<>>, rest |-> buf]

\* if play_buffer.len() > 0 && state != Running { play_buffer.drain(0..n) .. writei }
Drain(buf, running, avail) ==
    IF buf # <<>> /\ ~running
    THEN LET n == Min(avail, Len(buf))
         IN  [written |-> SubSeq(buf, 1, n), rest |-> SubSeq(buf, n + 1, Len(buf))]
    ELSE [written |-> <<>>, rest |-> buf]

\* BufferAfter with the Stop arm leaving play_buffer as it is
BufferAfter_StopKeeps(buf, cmd) ==
    CASE cmd.type = "Play" -> buf \o cmd.samples
      [] OTHER -> buf

\* play_buffer after the match on the received command
BufferAfter(buf, cmd) ==
    CASE cmd.type = "Play" -> buf \o cmd.samples
      [] cmd.type = "Stop" -> <<>>
      [] OTHER -> buf

\* record of the last command processed ("none" before the first one): its
\* type and, for a Stop, the samples play_buffer.clear() removed
OutStep(cmdType, cleared) == [cmd |-> cmdType, cleared |-> cleared]

\* one iteration of output_audio's loop.  alsaOk is the result of
\* output_pcm.status()?; running and avail are what the status reports
PlaybackTick(running, avail, alsaOk) ==
    /\ process = "running"
    /\ outPc = "running"
    /\ IF ~alsaOk
       THEN /\ outPc' = "failed"
            /\ UNCHANGED <<playQueue, play_buffer, mixer, pcmWritten, outStep,
                           playStream, devStream>>
       ELSE LET d == Drain(play_buffer, running, avail)
                hasCmd == playQueue # <<>>
                cmd == IF hasCmd THEN Head(playQueue) ELSE [type |-> "none"]
            IN  /\ pcmWritten' = d.written
                /\ playQueue' = IF hasCmd THEN Tail(playQueue) ELSE playQueue
                /\ play_buffer' = BufferAfter(d.rest, cmd)
                /\ Len(play_buffer') <= MaxPlayBuffer
                /\ outStep' = CASE cmd.type = "Stop" -> OutStep("Stop", d.rest)
                                [] hasCmd -> OutStep(cmd.type, <<>>)
                                [] OTHER -> outStep
                /\ playStream' = CASE cmd.type = "Play" -> playStream \o cmd.samples
                                   [] cmd.type = "Stop" -> <<>>
                                   [] OTHER -> playStream
                /\ Len(playStream') <= MaxStream
                /\ devStream' = IF cmd.type = "Stop" THEN <<>> ELSE devStream \o d.written
                /\ mixer' = CASE cmd.type = "SetMute" -> IF cmd.mute THEN 0 ELSE 100
                              [] cmd.type = "SetVolume" -> cmd.volume
                              [] OTHER -> mixer
                /\ outPc' = IF cmd.type = "Exit" THEN "exited" ELSE "running"
    /\ UNCHANGED <<callVars, evVars, process, netVars, rxq, uiQueue, inQueue, mainVars, uiVars, capVars>>

\* commands the holders of the Playback sender (main, the UI task, the
\* Network task) may send
OutCommands ==
    {OutPlay(au) : au \in AudioFrames} \cup {OutStop, OutSetVolume(95), OutSetMute(TRUE), OutExit}

\* a holder of the Playback sender sends c
OutSenderSend(c) ==
    /\ process = "running"
    /\ Len(playQueue) < MaxQueue
    /\ playQueue' = Append(playQueue, c)
    /\ UNCHANGED <<callVars, evVars, process, netVars, rxq, uiQueue, inQueue,
                   mainVars, uiVars, capVars, outVars>>

\* =================================================================== main
\* the tasks main creates: create_output_audio_task, create_network_task,
\* create_input_audio_task, create_terminal_task.  events::create_event_task
\* is never called.
Tasks == {"Playback", "Network", "Capture", "UI"}

\* the statements of main after the four tasks are created, one action
\* each.  A send to a task that has ended returns Err and main returns it:
\* the process ends with a failure status.
MainSend(pc, next, alive, chan, msg) ==
    /\ process = "running"
    /\ mainPc = pc
    /\ IF alive
       THEN /\ mainPc' = next
            /\ process' = process
            /\ rxq' = IF chan = "net" THEN Append(rxq, msg) ELSE rxq
            /\ inQueue' = IF chan = "cap" THEN Append(inQueue, msg) ELSE inQueue
            /\ playQueue' = IF chan = "play" THEN Append(playQueue, msg) ELSE playQueue
            /\ Len(rxq') <= MaxPending
            /\ Len(inQueue') <= MaxPending
            /\ Len(playQueue') <= MaxPending
       ELSE /\ mainPc' = "failed"
            /\ process' = "exit1"
            /\ UNCHANGED <<rxq, inQueue, playQueue>>
    /\ UNCHANGED <<callVars, evVars, netVars, uiQueue, uiVars, capVars, outVars>>

\* thread::sleep(100ms); network_sender.send(MainTaskQueue(terminal_tx))?
MainSendMainTaskQueue ==
    MainSend("sleep", "sendOutputAudioQueue", NetRxAlive, "net", CmdMainTaskQueue)

\* network_sender.send(OutputAudioQueue(output_audio_sender.clone()))?
MainSendOutputAudioQueue ==
    MainSend("sendOutputAudioQueue", "playReady", NetRxAlive, "net", CmdOutputAudioQueue)

\* output_audio_sender.send(Play(decode_bytes(READY_TO_PAIR_SOUND)))?
MainPlayReady ==
    MainSend("playReady", "joinTerminal", OutRxAlive, "play", OutPlay(ReadyToPairSound))

MainJoin(pc, next, ended) ==
    /\ process = "running"
    /\ mainPc = pc
    /\ ended
    /\ mainPc' = next
    /\ process' = IF next = "done" THEN "exit0" ELSE process
    /\ UNCHANGED <<callVars, evVars, netVars, chanVars, uiVars, capVars, outVars>>

\* let _ = terminal_thread.join()
MainJoinTerminal == MainJoin("joinTerminal", "exitOutput", uiPc # "running")

MainExitOutput == MainSend("exitOutput", "exitInput", OutRxAlive, "play", OutExit)
MainExitInput == MainSend("exitInput", "exitNetwork", CapRxAlive, "cap", InExit)
MainExitNetwork == MainSend("exitNetwork", "joinOutput", NetRxAlive, "net", CmdExit)

MainJoinOutput == MainJoin("joinOutput", "joinInput", outPc # "running")
MainJoinInput == MainJoin("joinInput", "joinNetwork", capPc # "running")
MainJoinNetwork == MainJoin("joinNetwork", "done", ~NetRxAlive)

\* ============================================================= event task
\* EventCommand has the one variant Exit
EvExit == [type |-> "Exit"]

\* keys /dev/input/event0 may report; KEY_A stands for every key the match
\* sends to `_ => {}`
EvKeys == {"KEY_UP", "KEY_DOWN", "KEY_MUTE", "KEY_SELECT", "KEY_OK", "KEY_A"}

\* match k { ... }: the command one key event sends to the UI, if any
KeyCommand(k) ==
    CASE k = "KEY_UP" -> <<UiCommand("IncreaseVolume")>>
      [] k = "KEY_DOWN" -> <<UiCommand("DecreaseVolume")>>
      [] k = "KEY_MUTE" -> <<UiCommand("ToggleMute")>>
      [] k = "KEY_SELECT" -> <<UiCommand("AcceptCall")>>
      [] k = "KEY_OK" -> <<UiCommand("StopCall")>>
      [] OTHER -> <<>>

RECURSIVE KeyCommands(_)
\* for event in events { ... }
KeyCommands(events) ==
    IF events = <<>> THEN <<>>
    ELSE KeyCommand(Head(events)) \o KeyCommands(Tail(events))

\* let mut device = Device::open("/dev/input/event0")?
EventOpen(ok) ==
    /\ process = "running"
    /\ evPc = "open"
    /\ evPc' = IF ok THEN "recv" ELSE "failed"
    /\ UNCHANGED <<callVars, process, netVars, chanVars, mainVars, uiVars, capVars, outVars,
                   evQueue, evdev>>

\* the top of the loop: if let Ok(ev) = command_receiver.try_recv() { Exit => break }
EventTryRecv ==
    /\ process = "running"
    /\ evPc = "recv"
    /\ IF evQueue # <<>>
       THEN evQueue' = Tail(evQueue) /\ evPc' = "exited"
       ELSE evQueue' = evQueue /\ evPc' = "fetch"
    /\ UNCHANGED <<callVars, process, netVars, chanVars, mainVars, uiVars, capVars, outVars, evdev>>

\* device.fetch_events()? returning Ok: the device is opened blocking, so the
\* call returns only once the device holds events; then the for loop sends
\* the commands of the key events, each send followed by `?`
EventFetch ==
    /\ process = "running"
    /\ evPc = "fetch"
    /\ evdev # <<>>
    /\ evdev' = <<>>
    /\ LET cmds == KeyCommands(evdev) IN
       IF cmds = <<>> \/ UiRxAlive
       THEN /\ uiQueue' = uiQueue \o cmds
            /\ Len(uiQueue') <= MaxPending
            /\ evPc' = "recv"
       ELSE /\ uiQueue' = uiQueue
            /\ evPc' = "failed"
    /\ UNCHANGED <<callVars, process, netVars, rxq, playQueue, inQueue, mainVars, uiVars,
                   capVars, outVars, evQueue>>

\* device.fetch_events()? returning Err (the device is gone)
EventFetchFails ==
    /\ process = "running"
    /\ evPc = "fetch"
    /\ evPc' = "failed"
    /\ UNCHANGED <<callVars, process, netVars, chanVars, mainVars, uiVars, capVars, outVars,
                   evQueue, evdev>>

\* the user presses key k: the kernel queues its event on the device
KeyPressed(k) ==
    /\ process = "running"
    /\ Len(evdev) < MaxQueue
    /\ evdev' = Append(evdev, k)
    /\ UNCHANGED <<callVars, process, netVars, chanVars, mainVars, uiVars, capVars, outVars,
                   evPc, evQueue>>

\* the holder of the Sender<EventCommand> create_event_task returns sends Exit
EvSenderSend ==
    /\ process = "running"
    /\ evPc # "absent"
    /\ Len(evQueue) < MaxQueue
    /\ evQueue' = Append(evQueue, EvExit)
    /\ UNCHANGED <<callVars, process, netVars, chanVars, mainVars, uiVars, capVars, outVars,
                   evPc, evdev>>

\* ==================================================== two instances A and B
\* Two copies of the program on two hosts, each past its bootstrap and idle.
\* Each copy runs the handlers above (PollSocket, OnCommand, handle_events,
\* RecordAfter) on its own state; the socket of each is bound to port 33445,
\* so that is the source port the other side sees.
Instances == {"A", "B"}
Other(i) == IF i = "A" THEN "B" ELSE "A"
AddrOf(i) == [ip |-> IF i = "A" THEN "ipA" ELSE "ipB", port |-> Port]

\* one instance: network_task's position and state, its command channel, the
\* UI's channel and AppState, input_audio_task's channel and record flag, and
\* what the UI has sent to Capture and to Playback so far
Instance ==
    [netPc |-> "poll", current_state |-> Stopped, rxq |-> <<>>,
     uiQueue |-> <<>>, screen_state |-> Home, animation_state |-> 0, leds |-> LedsOff,
     inQueue |-> <<>>, record |-> FALSE,
     capSent |-> <<>>, playSent |-> <<>>]

\* the keys A's user presses to dial B: Enter on the Call item, the literal of
\* B's address, Enter
DialKeys == <<"Enter", "2", "Enter">>

RECURSIVE SentTo(_, _, _)
\* udp_socket.send_to(.., dst): the datagrams of `sent` that go to instance j,
\* as j's recv_from will return them
SentTo(sent, from, j) ==
    IF sent = <<>> THEN <<>>
    ELSE (IF Head(sent).dst = AddrOf(j)
          THEN <<Datagram(AddrOf(from), Head(sent).bytes)>>
          ELSE <<>>) \o SentTo(Tail(sent), from, j)

\* the network carries what instance `from` has sent; nothing is lost
Carried(w, from, sent) == [j \in Instances |-> w[j] \o SentTo(sent, from, j)]

RingingAt(i) ==
    /\ inst[i].screen_state.screen = "Call"
    /\ inst[i].screen_state.call.call_status = "IncomingCall"

\* the call is up on both sides
Established ==
    /\ inst["A"].current_state = InCall(AddrOf("B"))
    /\ inst["B"].current_state = InCall(AddrOf("A"))
    /\ inst["A"].screen_state.screen = "Call"
    /\ inst["A"].screen_state.call.call_status = "InCall"
    /\ inst["A"].screen_state.call.remote_ip = "ipB"
    /\ inst["A"].capSent = <<InStart>>
    /\ inst["A"].playSent = <<OutStop>>

\* the first half of one iteration of i's network_task: recv_from returns the
\* next datagram on the wire, or times out when there is none
CallNetPoll(i) ==
    LET s == inst[i]
        d == IF wire[i] = <<>> THEN NoDatagram ELSE Head(wire[i])
        r == PollSocket(s.current_state, d, TRUE)
    IN  /\ s.netPc = "poll"
        /\ inst' = [inst EXCEPT ![i] = [s EXCEPT !.netPc = NextPc("poll", r.outcome),
                                                 !.current_state = r.state,
                                                 !.uiQueue = @ \o r.ui]]
        /\ wire' = Carried([wire EXCEPT ![i] = IF @ = <<>> THEN @ ELSE Tail(@)], i, r.sent)
        /\ UNCHANGED <<process, netVars, chanVars, mainVars, uiVars, capVars, outVars,
                       evVars, user>>

\* the second half: rx.try_recv()
CallNetTryRecv(i) ==
    LET s == inst[i]
        r == IF s.rxq = <<>> THEN Unchanged(s.current_state)
             ELSE OnCommand(s.current_state, Head(s.rxq), TRUE)
    IN  /\ s.netPc = "cmd"
        /\ inst' = [inst EXCEPT ![i] = [s EXCEPT !.netPc = NextPc("cmd", r.outcome),
                                                 !.current_state = r.state,
                                                 !.rxq = IF @ = <<>> THEN @ ELSE Tail(@)]]
        /\ wire' = Carried(wire, i, r.sent)
        /\ UNCHANGED <<process, netVars, chanVars, mainVars, uiVars, capVars, outVars,
                       evVars, user>>

\* the keys i's user may press in this iteration: A dials, B accepts while
\* its screen rings, and once the call is up either one may hang up
KeysOf(i) ==
    {NoKey}
    \cup (IF i = "A" /\ user.toDial # <<>> THEN {Head(user.toDial)} ELSE {})
    \cup (IF i = "B" /\ RingingAt("B") /\ ~user.accepted THEN {"Enter"} ELSE {})
    \cup (IF Established /\ user.accepted /\ ~user.hungUp THEN {"Esc"} ELSE {})

\* what one handle_events call with the key `code` does to the instance s
UiIteration(s, code) ==
    LET hasCmd == s.uiQueue # <<>>
        cmd == IF hasCmd THEN Head(s.uiQueue) ELSE UiCommand("none")
        x == handle_events(Ctx(s.screen_state, s.animation_state, s.leds, <<>>, FALSE),
                           hasCmd, cmd, code)
    IN  [s EXCEPT !.screen_state = x.screen_state,
                  !.animation_state = x.animation_state,
                  !.leds = x.leds,
                  !.uiQueue = IF hasCmd THEN Tail(@) ELSE @,
                  !.rxq = @ \o MsgsTo(x.out, "net"),
                  !.inQueue = @ \o MsgsTo(x.out, "cap"),
                  !.capSent = @ \o MsgsTo(x.out, "cap"),
                  !.playSent = @ \o MsgsTo(x.out, "play")]

\* one iteration of i's UI loop with the key `code`
CallUiTick(i, code) ==
        /\ code \in KeysOf(i)
        /\ inst' = [inst EXCEPT ![i] = UiIteration(@, code)]
        /\ user' = [user EXCEPT
                        !.toDial = IF i = "A" /\ code # NoKey /\ code # "Esc" THEN Tail(@) ELSE @,
                        !.accepted = @ \/ (i = "B" /\ code = "Enter"),
                        !.hungUp = @ \/ code = "Esc"]
        /\ UNCHANGED <<process, netVars, chanVars, mainVars, uiVars, capVars, outVars,
                       evVars, wire>>

\* A's user gives up the call it dialled: Esc in an iteration of A's UI loop
\* while A's Network task is still PendingConnection(B) and B is ringing
CallCancel ==
    /\ inst["A"].current_state = PendingConnection(AddrOf("B"))
    /\ inst["A"].screen_state.screen = "Call"
    /\ inst["B"].current_state = PendingConnection(AddrOf("A"))
    /\ RingingAt("B")
    /\ ~user.cancelled /\ ~user.accepted
    /\ inst' = [inst EXCEPT !["A"] = UiIteration(@, "Esc")]
    /\ user' = [user EXCEPT !.cancelled = TRUE]
    /\ UNCHANGED <<process, netVars, chanVars, mainVars, uiVars, capVars, outVars,
                   evVars, wire>>

\* a third host, which runs no instance
Stranger == [ip |-> "ipC", port |-> Port]

\* users who do as they please: on Home and on the dial screen A's user may
\* press the next key of the dial, and either user may press Enter on a
\* ringing screen and Esc on the Call screen (MaxEscs times between the two)
FreeKeysOf(i) ==
    {NoKey}
    \cup (IF /\ i = "A" /\ user.toDial # <<>>
              /\ inst[i].screen_state.screen \in {"Home", "EnterCallInfo"}
           THEN {Head(user.toDial)} ELSE {})
    \cup (IF RingingAt(i) THEN {"Enter"} ELSE {})
    \cup (IF inst[i].screen_state.screen = "Call" /\ user.escs < MaxEscs THEN {"Esc"} ELSE {})

\* one iteration of i's UI loop with a key of such a user
FreeUiTick(i, code) ==
    /\ code \in FreeKeysOf(i)
    /\ inst' = [inst EXCEPT ![i] = UiIteration(@, code)]
    /\ user' = [user EXCEPT
                    !.toDial = IF /\ i = "A" /\ code # NoKey
                                  /\ inst[i].screen_state.screen \in {"Home", "EnterCallInfo"}
                               THEN Tail(@) ELSE @,
                    !.escs = IF code = "Esc" THEN @ + 1 ELSE @]
    /\ UNCHANGED <<process, netVars, chanVars, mainVars, uiVars, capVars, outVars,
                   evVars, wire>>

\* the third host dials instance i: its StartConnection datagram is on the way
StrangerDials(i) ==
    /\ i = "A"
    /\ ~user.stranger
    /\ wire' = [wire EXCEPT ![i] = Append(@, Datagram(Stranger, serialize(new_start_connection)))]
    /\ user' = [user EXCEPT !.stranger = TRUE]
    /\ UNCHANGED <<process, netVars, chanVars, mainVars, uiVars, capVars, outVars,
                   evVars, inst>>

\* one iteration of i's input_audio_task: it takes a command if there is
\* one, else, recording, it sends the frames it has read to the Network task
CallCaptureTick(i) ==
    LET s == inst[i] IN
    /\ IF s.inQueue # <<>>
       THEN inst' = [inst EXCEPT ![i] = [s EXCEPT !.record = RecordAfter(@, Head(s.inQueue).type),
                                                 !.inQueue = Tail(@)]]
       ELSE /\ s.record
            /\ Len(s.rxq) < MaxQueue
            /\ Len(wire[Other(i)]) < MaxChan
            /\ inst' = [inst EXCEPT ![i] = [s EXCEPT !.rxq = Append(@, CmdSendAudio(<<1>>))]]
    /\ UNCHANGED <<process, netVars, chanVars, mainVars, uiVars, capVars, outVars,
                   evVars, wire, user>>

\* ================================================================== specs
\* the state main's four create_* calls leave
InitTasks ==
    /\ process = "running"
    /\ netPc = "boot1"
    /\ current_state = Stopped
    /\ rxq = <<>>
    /\ uiQueue = <<>>
    /\ playQueue = <<>>
    /\ netStep = NoStep
    /\ handshake = "none"
    /\ mainPc = "sleep"
    /\ uiPc = "running"
    /\ screen_state = Home
    /\ animation_state = 0
    /\ leds = LedsOff
    /\ keysLeft = MaxKeys
    /\ capPc = "running"
    /\ record = FALSE
    /\ capBufLen = CaptureBufferLen
    /\ capStep = CapStep("none", FALSE)
    /\ inQueue = <<>>
    /\ outPc = "running"
    /\ play_buffer = <<>>
    /\ mixer = 100
    /\ pcmWritten = <<>>
    /\ outStep = OutStep("none", <<>>)
    /\ playStream = <<>>
    /\ devStream = <<>>
    /\ evQueue = <<>>
    /\ evdev = <<>>
    /\ inst = [i \in Instances |-> Instance]
    /\ wire = [i \in Instances |-> <<>>]
    /\ user = [toDial |-> DialKeys, accepted |-> FALSE, hungUp |-> FALSE,
               cancelled |-> FALSE, escs |-> 0, stranger |-> FALSE]

\* main never calls events::create_event_task
Init == InitTasks /\ evPc = "absent"

Next ==
    \/ NetBootMain
    \/ NetBootOutput
    \/ \E d \in Datagrams \cup {NoDatagram} : NetPoll(d)
    \/ NetTryRecv
    \/ \E c \in NetCommands : SenderSend(c)
    \/ UiTakes
    \/ PlaybackTakes

Spec == Init /\ [][Next]_vars

\* datagrams that reach the socket in the runs of the whole program
SysDatagrams == {Datagram([ip |-> "ipA", port |-> Port], <<k>>) : k \in {1, 4}}

\* the whole program: main and the four tasks it creates; the playback
\* device answers every status call
NextSys ==
    \/ NetBootMain
    \/ NetBootOutput
    \/ \E d \in SysDatagrams \cup {NoDatagram} : NetPoll(d)
    \/ NetTryRecv
    \/ \E code \in Keys \cup {NoKey} : UiTick(code)
    \/ \E read \in {"frames", "none", "err"}, au \in AudioFrames, alsaOk \in BOOLEAN :
          CaptureTick(read, au, alsaOk)
    \/ \E running \in BOOLEAN, avail \in 0..MaxAvail : PlaybackTick(running, avail, TRUE)
    \/ MainSendMainTaskQueue
    \/ MainSendOutputAudioQueue
    \/ MainPlayReady
    \/ MainJoinTerminal
    \/ MainExitOutput
    \/ MainExitInput
    \/ MainExitNetwork
    \/ MainJoinOutput
    \/ MainJoinInput
    \/ MainJoinNetwork

SpecSys == Init /\ [][NextSys]_vars

\* the three receivers have taken everything the UI task sent
OutputsTaken == rxq = <<>> /\ inQueue = <<>> /\ playQueue = <<>>

\* the UI task driven by arbitrary holders of its sender and by the user's
\* keys.  The receivers of the three channels it writes to are alive and
\* take what it sent before its next iteration.
NextUi ==
    \/ OutputsTaken /\ \E code \in Keys \cup {NoKey} : UiTick(code)
    \/ OutputsTaken /\ \E c \in UiCommands, code \in Keys \cup {NoKey} : UiTickOn(c, code)
    \/ NetworkTakes
    \/ CaptureTakes
    \/ PlaybackTakes

SpecUi == Init /\ [][NextUi]_vars

\* the Capture task driven by arbitrary holders of its sender and by an
\* arbitrary device; the Network task's receiver is alive
NextCapture ==
    \/ \E read \in {"frames", "none", "err"}, au \in AudioFrames, alsaOk \in BOOLEAN :
          CaptureTick(read, au, alsaOk)
    \/ \E c \in {InStart, InStop, InExit} : CapSenderSend(c)
    \/ NetworkTakes

SpecCapture == Init /\ [][NextCapture]_vars

\* the Playback task driven by arbitrary holders of its sender and by an
\* arbitrary device
\* the event task as create_event_task spawns it, with the sender of Exit, the
\* user at the keys, and the UI taking what the task sends
InitInput == InitTasks /\ evPc = "open"

NextInput ==
    \/ \E ok \in BOOLEAN : EventOpen(ok)
    \/ EventTryRecv
    \/ EventFetch
    \/ EventFetchFails
    \/ \E k \in EvKeys : KeyPressed(k)
    \/ EvSenderSend
    \/ UiTakes

\* the thread is scheduled whenever it can take a step; nothing obliges the
\* user to press a key or the device to fail
SpecInput ==
    /\ InitInput /\ [][NextInput]_vars
    /\ WF_vars(\E ok \in BOOLEAN : EventOpen(ok))
    /\ WF_vars(EventTryRecv)
    /\ WF_vars(EventFetch)
    /\ WF_vars(UiTakes)

\* the two instances, every thread of each scheduled whenever it can take a
\* step; the users press keys when they please
NextCall ==
    \/ \E i \in Instances : CallNetPoll(i)
    \/ \E i \in Instances : CallNetTryRecv(i)
    \/ \E i \in Instances : \E code \in KeysOf(i) : CallUiTick(i, code)
    \/ \E i \in Instances : CallCaptureTick(i)

SpecCall ==
    /\ Init /\ [][NextCall]_vars
    /\ \A i \in Instances :
          /\ WF_vars(CallNetPoll(i) \/ CallNetTryRecv(i))
          /\ WF_vars(\E code \in KeysOf(i) : CallUiTick(i, code))

\* the two instances with a caller who may give up while the callee rings
NextCancel ==
    \/ \E i \in Instances : CallNetPoll(i)
    \/ \E i \in Instances : CallNetTryRecv(i)
    \/ \E i \in Instances : \E code \in KeysOf(i) : CallUiTick(i, code)
    \/ \E i \in Instances : CallCaptureTick(i)
    \/ CallCancel

SpecCancel ==
    /\ Init /\ [][NextCancel]_vars
    /\ \A i \in Instances :
          /\ WF_vars(CallNetPoll(i) \/ CallNetTryRecv(i))
          /\ WF_vars(\E code \in KeysOf(i) : CallUiTick(i, code))

\* the two instances with users who dial, accept and hang up as they please,
\* and a third host that dials one of them
NextFree ==
    \/ \E i \in Instances : CallNetPoll(i)
    \/ \E i \in Instances : CallNetTryRecv(i)
    \/ \E i \in Instances : \E code \in FreeKeysOf(i) : FreeUiTick(i, code)
    \/ \E i \in Instances : CallCaptureTick(i)
    \/ \E i \in Instances : StrangerDials(i)

SpecFree == Init /\ [][NextFree]_vars

\* the commands that start and end calls and change the volume and the mute
\* flag on the call screen
MixerCommands ==
    {UiStartCall([ip |-> "ipA", port |-> Port]), UiStopCall}
    \cup {UiCommand(t) : t \in {"IncreaseVolume", "DecreaseVolume", "ToggleMute"}}

\* the UI task and the Playback task it commands; the Network and Capture
\* tasks take what the UI sends them
NextMixer ==
    \/ \E c \in MixerCommands : UiTickOn(c, NoKey)
    \/ \E running \in BOOLEAN, avail \in 0..MaxAvail : PlaybackTick(running, avail, TRUE)
    \/ NetworkTakes
    \/ CaptureTakes

SpecMixer == Init /\ [][NextMixer]_vars

NextPlayback ==
    \/ \E running \in BOOLEAN, avail \in 0..MaxAvail, alsaOk \in BOOLEAN :
          PlaybackTick(running, avail, alsaOk)
    \/ \E c \in OutCommands : OutSenderSend(c)

SpecPlayback == Init /\ [][NextPlayback]_vars

\* ==================================================================== claims
\* helpers to read netStep
Polled == netStep.op = "poll" /\ netStep.dgram # NoDatagram
PolledKind(k) == Polled /\ Len(netStep.dgram.bytes) > 0 /\ netStep.dgram.bytes[1] = k
Processed(t) == netStep.op = "cmd" /\ netStep.cmd.type = t
Silent == netStep.sent = <<>> /\ netStep.ui = <<>> /\ netStep.play = <<>>
StillLooping == netPc \in {"poll", "cmd"} /\ process = "running"

\* C1: in every Network state, a received non-empty datagram whose first
\* byte is not in 0..4 is a silent drop: the state is unchanged, nothing is
\* emitted to UI or Playback, no datagram is sent, and the Network task and
\* the process keep running.
C1_UnknownKindDropped ==
    (Polled /\ Len(netStep.dgram.bytes) > 0 /\ netStep.dgram.bytes[1] \notin 0..4)
        => /\ current_state = netStep.pre
           /\ Silent
           /\ StillLooping

\* C2: while the state is InCall(p), a StopConnection or Audio datagram whose
\* source is not p has no effect: the state stays InCall(p), no StopCall is
\* emitted to the UI and no Play is forwarded to Playback.
C2_InCallFilteredToPeer ==
    ((PolledKind(1) \/ PolledKind(2))
        /\ netStep.pre.tag = "InCall"
        /\ netStep.dgram.src # netStep.pre.peer)
        => /\ current_state = netStep.pre
           /\ netStep.ui = <<>>
           /\ netStep.play = <<>>

\* C3: an Audio datagram is sent only by a step taken in state InCall(p),
\* and only to p; a SendAudio command processed in Stopped or
\* PendingConnection sends no datagram and leaves the state unchanged.
C3_MediaEgressGated ==
    /\ \A i \in 1..Len(netStep.sent) :
          netStep.sent[i].bytes[1] = 2
              => /\ netStep.pre.tag = "InCall"
                 /\ current_state = netStep.pre
                 /\ netStep.sent[i].dst = netStep.pre.peer
    /\ (Processed("SendAudio") /\ netStep.pre.tag # "InCall")
          => /\ netStep.sent = <<>>
             /\ current_state = netStep.pre

\* C3 witness: a SendAudio([1, 2]) processed in InCall(p) put the datagram
\* [2, 1, 0, 2, 0] on the socket for p.
C3_Witness ==
    /\ Processed("SendAudio")
    /\ netStep.pre.tag = "InCall"
    /\ netStep.cmd.audio = <<1, 2>>
    /\ netStep.sent = <<OutDatagram(netStep.pre.peer, <<2, 1, 0, 2, 0>>)>>

\* C4: a StartConnection datagram from r received in Stopped makes the state
\* PendingConnection(r), sends exactly one Heartbeat to r and emits exactly
\* one IncomingCall(r) to the UI; received in PendingConnection or InCall it
\* changes nothing and emits nothing.
C4_InboundRing ==
    /\ (PolledKind(0) /\ netStep.pre.tag = "Stopped")
          => /\ current_state = PendingConnection(netStep.dgram.src)
             /\ netStep.sent = <<OutDatagram(netStep.dgram.src, <<3>>)>>
             /\ netStep.ui = <<UiIncomingCall(netStep.dgram.src)>>
             /\ netStep.play = <<>>
    /\ (PolledKind(0) /\ netStep.pre.tag # "Stopped")
          => /\ current_state = netStep.pre
             /\ Silent

\* C5: a SendAccept command processed in PendingConnection(p) sends one
\* Accept datagram to p and moves the state to InCall(p); processed in
\* Stopped or InCall it sends nothing and leaves the state unchanged.
C5_SendAccept ==
    /\ (Processed("SendAccept") /\ netStep.pre.tag = "PendingConnection")
          => /\ netStep.sent = <<OutDatagram(netStep.pre.peer, <<4>>)>>
             /\ current_state = InCall(netStep.pre.peer)
    /\ (Processed("SendAccept") /\ netStep.pre.tag # "PendingConnection")
          => /\ netStep.sent = <<>>
             /\ current_state = netStep.pre

\* C6: an Accept datagram received from p in PendingConnection(p) moves the
\* state to InCall(p) and emits exactly one StartCall(p) to the UI; an Accept
\* received in Stopped or InCall changes no state and emits no StartCall.
C6_ReceiveAccept ==
    /\ (PolledKind(4) /\ netStep.pre.tag = "PendingConnection"
            /\ netStep.dgram.src = netStep.pre.peer)
          => /\ current_state = InCall(netStep.pre.peer)
             /\ netStep.ui = <<UiStartCall(netStep.pre.peer)>>
    /\ (PolledKind(4) /\ netStep.pre.tag # "PendingConnection")
          => /\ current_state = netStep.pre
             /\ netStep.ui = <<>>

\* C6 witness: an Accept from the pending peer has been handled.
C6_Witness ==
    /\ PolledKind(4)
    /\ netStep.pre.tag = "PendingConnection"
    /\ netStep.dgram.src = netStep.pre.peer
    /\ current_state.tag = "InCall"

\* C7: processing a StopConnection command always leaves the state Stopped;
\* a StopConnection datagram is sent, to p, if and only if the state before
\* the command was InCall(p).
C7_TeardownByCommand ==
    Processed("StopConnection")
        => /\ current_state = Stopped
           /\ IF netStep.pre.tag = "InCall"
              THEN netStep.sent = <<OutDatagram(netStep.pre.peer, <<1>>)>>
              ELSE netStep.sent = <<>>

\* C8: a StopConnection datagram received in PendingConnection(p) or
\* InCall(p) moves the state to Stopped and emits exactly one StopCall to the
\* UI; received in Stopped it is ignored and emits nothing.
C8_TeardownByPeer ==
    /\ (PolledKind(1) /\ netStep.pre.tag \in {"PendingConnection", "InCall"})
          => /\ current_state = Stopped
             /\ netStep.ui = <<UiStopCall>>
    /\ (PolledKind(1) /\ netStep.pre.tag = "Stopped")
          => /\ current_state = Stopped
             /\ Silent

\* C8 witness: a StopConnection datagram has ended a call in progress.
C8_Witness ==
    /\ PolledKind(1)
    /\ netStep.pre.tag = "InCall"
    /\ current_state = Stopped
    /\ uiQueue = <<UiStopCall>>

\* C9: a StartConnection(peer) command processed in any state sends one
\* StartConnection datagram to peer and sets the state to
\* PendingConnection(peer).
C9_OutboundDial ==
    Processed("StartConnection")
        => /\ netStep.sent = <<OutDatagram(netStep.cmd.addr, <<0>>)>>
           /\ current_state = PendingConnection(netStep.cmd.addr)

\* C10: in every interleaving of startup the first command the Network task
\* consumes is MainTaskQueue and the second is OutputAudioQueue, nothing else
\* is consumed ahead of them, and no socket poll or command drain has
\* happened while the task still waits for a handle.
C10_BootstrapOrdering ==
    /\ netStep.op = "boot1" => netStep.cmd = CmdMainTaskQueue
    /\ netStep.op = "boot2" => netStep.cmd = CmdOutputAudioQueue
    /\ netPc \in {"boot1", "boot2"} => netStep.op \notin {"poll", "cmd"}

\* C11: if the first command the Network task receives is not MainTaskQueue,
\* or the second is not OutputAudioQueue, only the Network task terminates:
\* the process (and with it the UI, Capture and Playback tasks) keeps running.
C11_BootstrapFaultLocal ==
    (netStep.op \in {"boot1", "boot2"} /\ netStep.outcome # "ok")
        => /\ netPc \notin {"poll", "cmd"}
           /\ process = "running"

\* C12: five tasks (Playback, Network, Capture, UI, Input) are started, and
\* when main returns after the UI task has ended, each of the four others
\* has been sent Exit and has been joined.
C12_Shutdown ==
    process = "exit0"
        => /\ Tasks = {"Playback", "Network", "Capture", "UI", "Input"}
           /\ uiPc # "running"
           /\ outPc # "running"
           /\ capPc # "running"
           /\ ~NetRxAlive

\* C13: when the Network or the Capture task has ended because of an
\* error, the UI task keeps running (or ends by Exit or the Exit menu item):
\* handling a key or a command that sends to the dead task's channel does not
\* end it.
C13_FaultIsolation ==
    (netPc = "failed" \/ capPc = "failed")
        => uiPc \in {"running", "exited"}

\* C14: a failed UDP send does not terminate the Network task: after the
\* step whose send_to failed the task is still in its loop.
C14_SendFailureSurvived ==
    (netStep.op \in {"poll", "cmd"} /\ netStep.outcome = "err") => StillLooping

\* helpers to read one step of the Capture task
CaptureConsumed == inQueue # <<>> /\ inQueue' = Tail(inQueue)
CaptureEmitted ==
    /\ Len(rxq') = Len(rxq) + 1
    /\ rxq'[Len(rxq')].type = "SendAudio"

\* C15: the Capture task emits SendAudio only in an iteration that began with
\* record true; record becomes true by processing Start, false by processing
\* Stop, and changes in no other way, so after a processed Stop nothing is
\* emitted until a later Start is processed.
C15_CaptureGating ==
    [][/\ CaptureEmitted => record
       /\ CaptureConsumed => record' = CASE Head(inQueue).type = "Start" -> TRUE
                                         [] Head(inQueue).type = "Stop" -> FALSE
                                         [] OTHER -> record
       /\ ~CaptureConsumed => record' = record]_vars

\* C15 witness: the task has emitted audio and has then processed a Stop.
C15_Witness ==
    /\ capPc = "running"
    /\ capStep.read = "frames"
    /\ capStep.sent
    /\ ~record

\* C16: an iteration that begins with record true and finds frames ready on
\* the device emits one SendAudio, on every such iteration and not only on
\* the first after Start.
C16_EveryIterationEmits ==
    (capStep.read = "frames" /\ capPc = "running") => capStep.sent

IsPrefix(a, b) == Len(a) <= Len(b) /\ SubSeq(b, 1, Len(a)) = a

\* C17: right after the Playback task has processed Stop, play_buffer is
\* empty, so a later Play is appended to an empty queue; and everything
\* written to the device since the last Stop comes, in order, from the Play
\* commands processed since that Stop: no sample submitted before a Stop is
\* written after it.
C17_StopEmptiesQueue ==
    /\ outStep.cmd = "Stop" => play_buffer = <<>>
    /\ IsPrefix(devStream, playStream)
    /\ Len(play_buffer) <= Len(playStream)

\* C17 witness: a Stop met a non-empty play_buffer and emptied it.
C17_Witness ==
    /\ outPc = "running"
    /\ outStep.cmd = "Stop"
    /\ outStep.cleared # <<>>
    /\ play_buffer = <<>>

\* C18: an iteration writes only when play_buffer is non-empty and the
\* device is not running, at most min(avail, len) samples taken from the
\* front; and as long as no Stop intervenes, the samples written so far
\* followed by play_buffer are exactly the Play payloads in arrival order.
C18_FifoDrain ==
    /\ playStream = devStream \o play_buffer
    /\ \A running \in BOOLEAN, avail \in 0..MaxAvail :
          LET d == Drain(play_buffer, running, avail) IN
          /\ d.written # <<>> => (play_buffer # <<>> /\ ~running)
          /\ Len(d.written) <= avail
          /\ d.written \o d.rest = play_buffer

\* C18 witness: two Play payloads were queued and the first one has been
\* written to the device while the second still waits.
C18_Witness ==
    /\ Len(playStream) >= 2
    /\ devStream # <<>>
    /\ play_buffer # <<>>
    /\ pcmWritten # <<>>

\* helpers to apply the handlers of handle_events to the current AppState
UiNow == Ctx(screen_state, animation_state, leds, <<>>, FALSE)
InCallScreen == screen_state.screen = "Call"
Volume == screen_state.call.volume
SetsVolume(y, v) ==
    /\ y.screen_state = [screen_state EXCEPT !.call.volume = v]
    /\ y.out = <<To("play", OutSetVolume(v))>>
    /\ v \in 0..100

\* C19: whenever the screen is Call the volume is in [0,100]; from there
\* IncreaseVolume and 'd' set it to min(volume+5,100), DecreaseVolume and 'a'
\* to max(volume-5,0), each sending one SetVolume with the new value; every
\* SetVolume in the Playback channel carries a value in [0,100].
C19_VolumeClamped ==
    /\ InCallScreen =>
          /\ Volume \in 0..100
          /\ LET up == IF Volume + 5 > 100 THEN 100 ELSE Volume + 5
                 down == IF Volume - 5 < 0 THEN 0 ELSE Volume - 5
             IN  /\ SetsVolume(HandleUiCommand(UiNow, UiCommand("IncreaseVolume")), up)
                 /\ SetsVolume(HandleKey(UiNow, "d"), up)
                 /\ SetsVolume(HandleUiCommand(UiNow, UiCommand("DecreaseVolume")), down)
                 /\ SetsVolume(HandleKey(UiNow, "a"), down)
    /\ \A i \in 1..Len(playQueue) :
          playQueue[i].type = "SetVolume" => playQueue[i].volume \in 0..100

\* C19 witness: the volume has been lowered to the floor and a further
\* decrease has sent SetVolume(0) again.
C19_Witness ==
    /\ InCallScreen
    /\ Volume = 0
    /\ playQueue = <<OutSetVolume(0)>>

\* C20: AcceptCall takes effect only on the Call screen with status
\* IncomingCall (SendAccept to Network, Start to Capture, Stop to Playback,
\* status InCall, LEDs off); on Home, EnterCallInfo, or Call with status
\* Calling or InCall it sends nothing and changes no UI state.
C20_AcceptOnlyWhenRinging ==
    uiPc = "running" /\ screen_state.screen # "Contacts" =>
        LET y == HandleUiCommand(UiNow, UiCommand("AcceptCall")) IN
        IF InCallScreen /\ screen_state.call.call_status = "IncomingCall"
        THEN /\ y.out = <<To("net", CmdSendAccept), To("cap", InStart), To("play", OutStop)>>
             /\ y.screen_state = [screen_state EXCEPT !.call.call_status = "InCall"]
             /\ y.leds = LedsOff
        ELSE y = UiNow

\* the effect StopCall, RejectCall and Esc are to have: the three stop
\* messages in order, the Home screen, the nine LED channels at 0, phase 0
HungUp(y) ==
    /\ y.out = <<To("net", CmdStopConnection), To("cap", InStop), To("play", OutStop)>>
    /\ y.screen_state = Home
    /\ y.leds = LedsOff
    /\ y.animation_state = 0
    /\ ~y.quit
Ringing == InCallScreen /\ screen_state.call.call_status = "IncomingCall"

\* C21: on a Call screen the iteration that takes StopCall sends
\* StopConnection to Network, Stop to Capture and Stop to Playback, turns the
\* LEDs off and sets the screen to Home; on any other screen it sends nothing
\* and leaves the screen, the LEDs and the animation phase as they were.
\* RejectCall has the first effect on every screen.
C21_StopAndReject ==
    /\ IF InCallScreen
       THEN HungUp(handle_events(UiNow, TRUE, UiStopCall, NoKey))
       ELSE handle_events(UiNow, TRUE, UiStopCall, NoKey) = UiNow
    /\ HungUp(handle_events(UiNow, TRUE, UiCommand("RejectCall"), NoKey))

\* C21 witness: a call has been hung up: the three stop messages are in the
\* channels, the screen is Home and the LEDs are off.
C21_Witness ==
    /\ screen_state = Home
    /\ leds = LedsOff /\ animation_state = 0
    /\ rxq = <<CmdStopConnection>>
    /\ inQueue = <<InStop>>
    /\ playQueue = <<OutStop>>

\* the brightness values of the five phases, led0, led1, led2 as <<r, g, b>>
PhaseTable ==
    <<    <<<<0, 0, 0>>, <<0, 0, 0>>, <<0, 0, 0>>>>,
          <<<<128, 128, 128>>, <<128, 128, 128>>, <<128, 128, 128>>>>,
          <<<<128, 0, 0>>, <<0, 128, 0>>, <<0, 0, 128>>>>,
          <<<<0, 128, 0>>, <<0, 0, 128>>, <<128, 0, 0>>>>,
          <<<<0, 0, 128>>, <<128, 0, 0>>, <<0, 128, 0>>>>    >>
\* one animation step from phase p: the row of p is written, the phase moves on
Advanced(y, p) ==
    /\ y.leds = PhaseTable[p + 1]
    /\ y.animation_state = (IF p = 4 THEN 0 ELSE p + 1)

\* C22: the iteration that takes IncomingCall(peer), from any screen, sets the
\* screen to Call with status IncomingCall and remote_ip the peer's IP and
\* sends Playback a Stop and then a Play of the ring tone, so that Playback,
\* taking them in order, ends with the ring tone in its buffer; while the
\* status is IncomingCall every iteration advances the LED animation once.
C22_IncomingCall ==
    /\ \A a \in Peers :
          LET y == HandleUiCommand(UiNow, UiIncomingCall(a)) IN
          /\ y.screen_state =
                Call([is_muted |-> FALSE, volume |-> 100, remote_ip |-> a.ip,
                      call_status |-> "IncomingCall"])
          /\ y.out = <<To("play", OutStop), To("play", OutPlay(IncomingCallSound))>>
          /\ \A buf \in {<<>>, ReadyToPairSound} :
                BufferAfter(BufferAfter(buf, y.out[1].msg), y.out[2].msg) = IncomingCallSound
          /\ Advanced(handle_events(UiNow, TRUE, UiIncomingCall(a), NoKey), animation_state)
    /\ Ringing =>
          /\ Advanced(handle_events(UiNow, FALSE, UiCommand("none"), NoKey), animation_state)
          /\ \A t \in {"IncreaseVolume", "DecreaseVolume", "ToggleMute"}, k \in {NoKey, "m", "a", "d"} :
                Advanced(handle_events(UiNow, TRUE, UiCommand(t), k), animation_state)

\* C22 witness: the iteration that took IncomingCall has run: the Stop and
\* the ring tone are in the Playback channel in that order, the row of phase 0
\* is written and the animation is at phase 1.
C22_Witness ==
    /\ Ringing
    /\ playQueue = <<OutStop, OutPlay(IncomingCallSound)>>
    /\ animation_state = 1
    /\ leds = PhaseTable[1]

\* C23: on Call(IncomingCall) the iteration whose key is Enter leaves the
\* same messages, the same screen and the same LEDs (nine channels 0, phase 0)
\* as the iteration that takes AcceptCall.
C23_EnterIsAccept ==
    Ringing =>
        LET byKey == handle_events(UiNow, FALSE, UiCommand("none"), "Enter")
            byCmd == handle_events(UiNow, TRUE, UiCommand("AcceptCall"), NoKey)
        IN  /\ byKey.out = byCmd.out
            /\ byKey.screen_state = byCmd.screen_state
            /\ byKey.leds = LedsOff /\ byKey.animation_state = 0
            /\ byCmd.leds = LedsOff /\ byCmd.animation_state = 0

\* C24: the animation phase is always in 0..4; from phase 0 five animation()
\* calls visit the phases 1, 2, 3, 4, 0 and write the rows of the phase table
\* in order; stop_animation() from any phase writes 0 to the nine channels and
\* resets the phase to 0.
C24_LedRing ==
    /\ animation_state \in 0..4
    /\ LET a0 == Ctx(screen_state, 0, leds, <<>>, FALSE)
           a1 == animation(a0)
           a2 == animation(a1)
           a3 == animation(a2)
           a4 == animation(a3)
           a5 == animation(a4)
       IN  /\ Advanced(a1, 0) /\ Advanced(a2, 1) /\ Advanced(a3, 2)
           /\ Advanced(a4, 3) /\ Advanced(a5, 4)
           /\ <<a1.animation_state, a2.animation_state, a3.animation_state,
                a4.animation_state, a5.animation_state>> = <<1, 2, 3, 4, 0>>
    /\ Advanced(animation(UiNow), animation_state)
    /\ stop_animation(UiNow).leds = LedsOff
    /\ stop_animation(UiNow).animation_state = 0
    /\ leds \in {PhaseTable[i] : i \in 1..5}

\* C24 witness: the ring has gone round once: five iterations on a ringing
\* call have brought the phase back to 0 with the row of phase 4 written.
C24_Witness ==
    /\ Ringing
    /\ animation_state = 0
    /\ leds = PhaseTable[5]

\* C29: on Home, Up and Down move the selection among the three items
\* wrapping at both ends, Enter on Call sets the screen to EnterCallInfo,
\* Enter on Contacts sets the screen to Contacts, and only Enter on Exit or an
\* Exit command ends the loop: on the Contacts screen the loop is still
\* running.
C29_HomeMenu ==
    /\ screen_state.screen = "Home" =>
          LET sel == screen_state.selected
              key(k) == handle_events(UiNow, FALSE, UiCommand("none"), k)
          IN  /\ sel \in 0..2
              /\ key("Up") = [UiNow EXCEPT !.screen_state.selected = (sel + 2) % 3]
              /\ key("Down") = [UiNow EXCEPT !.screen_state.selected = (sel + 1) % 3]
              /\ sel = 0 => key("Enter") = [UiNow EXCEPT !.screen_state = EnterCallInfo(<<>>)]
              /\ sel = 1 => key("Enter") = [UiNow EXCEPT !.screen_state = Contacts]
              /\ \A k \in Keys : key(k).quit <=> (k = "Enter" /\ sel = 2)
    /\ handle_events(UiNow, TRUE, UiCommand("Exit"), NoKey).quit
    /\ screen_state.screen = "Contacts" => uiPc = "running" /\ process = "running"

\* C25: on the callee's side no Audio datagram goes out before the Accept
\* datagram of the call has been sent: a SendAudio processed while the call
\* is still ringing produces no datagram.
C25_AcceptBeforeMedia ==
    handshake = "ringing" =>
        \A i \in 1..Len(netStep.sent) : netStep.sent[i].bytes[1] # TypeByte("Audio")

\* C28: while InCall an Audio datagram whose payload length is not a multiple
\* of 4 yields no Play; one whose payload length is a multiple of 4 yields
\* exactly one Play carrying payload_length / 2 samples.
C28_AudioPayloadLength ==
    PolledKind(2) /\ netStep.pre.tag = "InCall" =>
        LET n == Len(netStep.dgram.bytes) - 1 IN
        IF n % 4 # 0
        THEN netStep.play = <<>>
        ELSE /\ Len(netStep.play) = 1
             /\ netStep.play[1].type = "Play"
             /\ Len(netStep.play[1].samples) = n \div 2

\* C30: a ringing callee (PendingConnection entered by an inbound
\* StartConnection, no Accept sent yet) is never InCall and its UI is never
\* sent StartCall: only the local accept, which sends the Accept datagram,
\* takes it into the call.
C30_OnlyLocalAccept ==
    handshake = "ringing" =>
        /\ current_state.tag # "InCall"
        /\ \A i \in 1..Len(netStep.ui) : netStep.ui[i].type # "StartCall"

\* C26 (Input task): once Exit is in the event task's command channel the
\* task eventually leaves its loop and terminates, even if no further key
\* event arrives.
C26_InputExits ==
    (evQueue # <<>>) ~> (evPc \in {"exited", "failed"})

\* both instances are back to idle
BothIdle ==
    \A i \in Instances :
        inst[i].current_state = Stopped /\ inst[i].screen_state = Home

C31_CancelReachesCallee ==
    /\ (user.cancelled /\ ~user.accepted) ~>
           (user.accepted
            \/ (inst["B"].current_state = Stopped /\ inst["B"].screen_state = Home))
    /\ ~<>[](/\ user.cancelled
             /\ inst["B"].current_state.tag = "InCall"
             /\ inst["A"].current_state = Stopped)

\* C34: whenever the screen is Call and Playback has processed every command
\* sent to it, the mixer level is 0 if the call screen's muted flag is set and
\* the call screen's volume otherwise.
C34_MixerAgreesWithScreen ==
    InCallScreen /\ playQueue = <<>> /\ outPc = "running" =>
        mixer = (IF screen_state.call.is_muted THEN 0 ELSE Volume)

\* every channel of both instances is drained and no datagram is on its way
AllDrained ==
    \A i \in Instances :
        /\ inst[i].rxq = <<>> /\ inst[i].uiQueue = <<>> /\ inst[i].inQueue = <<>>
        /\ wire[i] = <<>>
OnCall(i) == inst[i].current_state.tag \in {"PendingConnection", "InCall"}

\* C32: whenever all channels are drained and the screen of an instance is
\* Call with remote_ip x while its Network state is PendingConnection(p) or
\* InCall(p), x is the IP of p.
C32_PeerAgreement ==
    AllDrained =>
        \A i \in Instances :
            inst[i].screen_state.screen = "Call" /\ OnCall(i) =>
                inst[i].screen_state.call.remote_ip = inst[i].current_state.peer.ip

\* C33: whenever all channels are drained and no datagram is pending, the
\* screen of an instance is Call if and only if its Network state is
\* PendingConnection or InCall.
C33_CallStateAgreement ==
    AllDrained =>
        \A i \in Instances : (inst[i].screen_state.screen = "Call") <=> OnCall(i)

====
